---- MODULE Spec2Model ----
(***************************************************************************)
(* Model of the pagination example: the server component PaginationExample *)
(* (page.tsx), the client components Pagination, BlogPost (both held in    *)
(* page.tsx) and PaginationToggle (components/pagination-toggle.tsx).      *)
(*                                                                         *)
(* Strings of the address bar are sequences of one-character strings, so   *)
(* that parseInt and toString are computed and not assumed to be inverse.  *)
(* An item of the remote collection is identified by its zero-based offset.*)
(***************************************************************************)
EXTENDS Integers, Sequences, FiniteSets, TLC

\* ------------------------------------------------------------- bounds
\* Largest collection size the remote source reports.
MaxTotal == 12
\* Largest explicit limit parameter of the initial address.
MaxLimit == 2
\* Number of router.push calls followed in one behaviour.
MaxPushes == 2
\* Number of incremental fetches one loader instance issues in one behaviour.
MaxFetches == 4
\* Number of incremental fetches followed while they are in flight together.
MaxInFlight == 2
\* Largest page parameter the infinite-scroll view is opened with.
MaxStartPage == 3

\* ------------------------------------------------------------- program constants
\* let currentLimit = 5
DefaultLimit == 5
\* let currentPage = 1
DefaultPage == 1
\* useState(1): the loader's page counter after mount
FirstLoaderPage == 1
\* pages.push(-1): the leading ellipsis marker
LeadingEllipsis == -1
\* pages.push(-2): the trailing ellipsis marker
TrailingEllipsis == -2

VARIABLES
    searchParams,   \* the address-bar parameters: a function from the present keys to their values
    total,          \* the size of the remote collection
    pushes,         \* number of router.push calls so far
    ignored,        \* the last navigateToPage call returned at its guard
    posts,          \* BlogPost state: the accumulated items (offsets)
    isLoading,      \* BlogPost state: the Loading flag
    page,           \* BlogPost state: the loader's page counter
    captured,       \* the values closed over by the loadMorePosts the observer calls
    inflight,       \* the incremental fetches awaiting their response, in issue order
    issued,         \* number of incremental fetches this loader instance has issued
    failed,         \* <<skip>> of the fetch that failed last, until the next observer callback; else <<>>
    loaded          \* number of incremental fetches of this loader instance that completed

vars == <<searchParams, total, pushes, ignored, posts, isLoading, page, captured, inflight,
          issued, failed, loaded>>

addressVars == <<searchParams, pushes>>
loaderVars == <<posts, isLoading, page, captured, inflight, issued, failed, loaded>>

Max(a, b) == IF a >= b THEN a ELSE b
Min(a, b) == IF a <= b THEN a ELSE b

\* ------------------------------------------------------------- strings
DigitChars == <<"0", "1", "2", "3", "4", "5", "6", "7", "8", "9">>

DigitValue(c) == CHOOSE d \in 0..9 : DigitChars[d + 1] = c

IsDigit(c) == \E d \in 0..9 : DigitChars[d + 1] = c

RECURSIVE NatToString(_)
NatToString(n) ==
    IF n < 10 THEN <<DigitChars[n + 1]>>
    ELSE NatToString(n \div 10) \o <<DigitChars[(n % 10) + 1]>>

\* Number.prototype.toString() of an integer
toString(n) == IF n < 0 THEN <<"-">> \o NatToString(-n) ELSE NatToString(n)

RECURSIVE ParseDigits(_, _, _)
ParseDigits(s, i, acc) ==
    IF i <= Len(s) /\ IsDigit(s[i])
    THEN ParseDigits(s, i + 1, acc * 10 + DigitValue(s[i]))
    ELSE acc

\* parseInt(value, 10) of a string that holds a decimal integer: an optional sign,
\* then the longest prefix of digits.
parseInt(s) ==
    IF Len(s) > 0 /\ s[1] = "-" THEN 0 - ParseDigits(s, 2, 0)
    ELSE ParseDigits(s, 1, 0)

\* ------------------------------------------------------------- URLSearchParams
Has(sp, name) == name \in DOMAIN sp

\* params.set(name, value)
ParamsSet(sp, name, value) ==
    [k \in (DOMAIN sp) \cup {name} |-> IF k = name THEN value ELSE sp[k]]

\* params.delete(name)
ParamsDelete(sp, name) == [k \in (DOMAIN sp) \ {name} |-> sp[k]]

\* ------------------------------------------------------------- remote data source
\* GET /posts?limit=L&skip=S: the items at offsets S .. min(S+L, total)-1 of a
\* collection of `size` items (none below offset 0).
ServerPosts(size, limit, skip) ==
    LET lo == Max(skip, 0)
        hi == Min(skip + limit, size)
    IN  [i \in 1..Max(hi - lo, 0) |-> lo + i - 1]

\* getBlogPosts(limit, page): the Page of the Data Source Client
getBlogPosts(size, limit, pg) ==
    LET skip == (pg - 1) * limit
    IN  [posts |-> ServerPosts(size, limit, skip), total |-> size,
         limit |-> limit, skip |-> skip]

\* ------------------------------------------------------------- PaginationExample
\* The server component's render for the address parameters sp.
PaginationExample(sp, size) ==
    LET pg == IF Has(sp, "page") THEN parseInt(sp["page"]) ELSE DefaultPage
        lim == IF Has(sp, "limit") THEN parseInt(sp["limit"]) ELSE DefaultLimit
        paged == ~(Has(sp, "style") /\ sp["style"] = "infinite")
    IN  [currentPage |-> pg, currentLimit |-> lim, usePagination |-> paged,
         blogPosts |-> getBlogPosts(size, lim, pg)]

rendered == PaginationExample(searchParams, total)
currentPage == rendered.currentPage
currentLimit == rendered.currentLimit
usePagination == rendered.usePagination
currentStyle == IF usePagination THEN "pagination" ELSE "infinite"

\* ------------------------------------------------------------- Pagination
\* Math.ceil(totalItems / limit), for limit > 0
Ceil(a, b) == (a + b - 1) \div b

totalPages == Ceil(rendered.blogPosts.total, currentLimit)

\* createQueryString without the block that writes the limit.
createQueryString_leavesLimit(sp, name, value) == ParamsSet(sp, name, value)

\* createQueryString(name, value) over the parameters sp, with the limit prop
createQueryString(sp, name, value) ==
    LET params == ParamsSet(sp, name, value)
    IN  IF name # "limit" THEN ParamsSet(params, "limit", toString(currentLimit))
        ELSE params

\* for (let i = lo; i <= hi; i++) pages.push(i)
RECURSIVE PushRange(_, _, _)
PushRange(pages, i, hi) ==
    IF i <= hi THEN PushRange(Append(pages, i), i + 1, hi) ELSE pages

\* getPageNumbers with the leading ellipsis placed from page 4 on.
getPageNumbers_earlyLeadingEllipsis(cp, tp) ==
    LET p0 == <<1>>
        p1 == IF cp >= 4 THEN Append(p0, LeadingEllipsis) ELSE p0
        p2 == PushRange(p1, Max(2, cp - 2), Min(tp - 1, cp + 2))
        p3 == IF cp < tp - 3 THEN Append(p2, TrailingEllipsis) ELSE p2
        p4 == IF tp > 1 THEN Append(p3, tp) ELSE p3
    IN  p4

\* getPageNumbers with the trailing ellipsis placed up to page totalPages - 3.
getPageNumbers_lateTrailingEllipsis(cp, tp) ==
    LET p0 == <<1>>
        p1 == IF cp > 4 THEN Append(p0, LeadingEllipsis) ELSE p0
        p2 == PushRange(p1, Max(2, cp - 2), Min(tp - 1, cp + 2))
        p3 == IF cp <= tp - 3 THEN Append(p2, TrailingEllipsis) ELSE p2
        p4 == IF tp > 1 THEN Append(p3, tp) ELSE p3
    IN  p4

\* getPageNumbers with the last page pushed only when the range stops short of it.
getPageNumbers_lastPageWithEllipsis(cp, tp) ==
    LET p0 == <<1>>
        p1 == IF cp > 4 THEN Append(p0, LeadingEllipsis) ELSE p0
        p2 == PushRange(p1, Max(2, cp - 2), Min(tp - 1, cp + 2))
        p3 == IF cp < tp - 3 THEN Append(Append(p2, TrailingEllipsis), tp) ELSE p2
    IN  p3

\* getPageNumbers with the range running from page 1 to page totalPages.
getPageNumbers_rangeOverEnds(cp, tp) ==
    LET p0 == <<1>>
        p1 == IF cp > 4 THEN Append(p0, LeadingEllipsis) ELSE p0
        p2 == PushRange(p1, Max(1, cp - 2), Min(tp, cp + 2))
        p3 == IF cp < tp - 3 THEN Append(p2, TrailingEllipsis) ELSE p2
        p4 == IF tp > 1 THEN Append(p3, tp) ELSE p3
    IN  p4

\* getPageNumbers with one page shown on either side of the current one.
getPageNumbers_narrowRange(cp, tp) ==
    LET p0 == <<1>>
        p1 == IF cp > 4 THEN Append(p0, LeadingEllipsis) ELSE p0
        p2 == PushRange(p1, Max(2, cp - 1), Min(tp - 1, cp + 1))
        p3 == IF cp < tp - 3 THEN Append(p2, TrailingEllipsis) ELSE p2
        p4 == IF tp > 1 THEN Append(p3, tp) ELSE p3
    IN  p4

getPageNumbers(cp, tp) ==
    LET p0 == <<1>>
        p1 == IF cp > 4 THEN Append(p0, LeadingEllipsis) ELSE p0
        p2 == PushRange(p1, Max(2, cp - 2), Min(tp - 1, cp + 2))
        p3 == IF cp < tp - 3 THEN Append(p2, TrailingEllipsis) ELSE p2
        p4 == IF tp > 1 THEN Append(p3, tp) ELSE p3
    IN  p4

\* const pageNumbers = getPageNumbers()
pageNumbers == getPageNumbers(currentPage, totalPages)

\* ------------------------------------------------------------- BlogPost
\* The props the page passes to BlogPost under the parameters sp.
BlogPostProps(sp, size) ==
    LET r == PaginationExample(sp, size)
    IN  [data |-> r.blogPosts,
         infiniteScroll |-> ~r.usePagination,
         totalItems |-> IF r.usePagination THEN 0 ELSE r.blogPosts.total]

props == BlogPostProps(searchParams, total)

\* const limit = searchParams.get('limit') ? parseInt(...) : data.limit
LoaderLimit(sp, size) ==
    IF Has(sp, "limit") /\ Len(sp["limit"]) > 0 THEN parseInt(sp["limit"])
    ELSE BlogPostProps(sp, size).data.limit

\* The values a render closes over in loadMorePosts (its dependency list).
Closure(sp, size, loading, pg, items) ==
    [isLoading |-> loading, page |-> pg, limit |-> LoaderLimit(sp, size),
     postsLength |-> Len(items), totalItems |-> BlogPostProps(sp, size).totalItems]

\* A fresh BlogPost instance under the parameters sp: the useState initial
\* values, and the observer set up by the first effect.
Mount(sp, size) ==
    LET data == BlogPostProps(sp, size).data
    IN  /\ posts' = data.posts
        /\ isLoading' = FALSE
        /\ page' = FirstLoaderPage
        /\ captured' = Closure(sp, size, FALSE, FirstLoaderPage, data.posts)
        /\ inflight' = <<>>
        /\ issued' = 0
        /\ failed' = <<>>
        /\ loaded' = 0

RemoveAt(s, i) == [j \in 1..(Len(s) - 1) |-> IF j < i THEN s[j] ELSE s[j + 1]]

\* ------------------------------------------------------------- initial states
\* The address with the given parameters; <<>> stands for an absent parameter
\* and <<v>> for one present with the value v.
Address(p, l, st) ==
    LET ks == (IF p # <<>> THEN {"page"} ELSE {})
              \cup (IF l # <<>> THEN {"limit"} ELSE {})
              \cup (IF st # <<>> THEN {"style"} ELSE {})
    IN  [k \in ks |-> IF k = "page" THEN p[1] ELSE IF k = "limit" THEN l[1] ELSE st[1]]

Optional(values) == {<<>>} \cup {<<v>> : v \in values}

LimitStrings == {toString(n) : n \in 1..MaxLimit}

\* The addresses the numbered-page view is opened with.
PagedAddresses ==
    {Address(p, l, st) : p \in Optional({toString(n) : n \in 0..(MaxTotal + 1)}),
                         l \in Optional(LimitStrings),
                         st \in Optional({"list"})}

\* The addresses the infinite-scroll view is opened with.
InfiniteAddresses ==
    {Address(p, l, <<"infinite">>) : p \in Optional({toString(n) : n \in 0..MaxStartPage}),
                                     l \in Optional(LimitStrings)}

\* The page as first rendered for the address sp: nothing pushed, no call made,
\* a fresh BlogPost.
Opened(sp) ==
    /\ searchParams = sp
    /\ pushes = 0
    /\ ignored = FALSE
    /\ LET data == BlogPostProps(sp, total).data
       IN  /\ posts = data.posts
           /\ isLoading = FALSE
           /\ page = FirstLoaderPage
           /\ captured = Closure(sp, total, FALSE, FirstLoaderPage, data.posts)
           /\ inflight = <<>>
           /\ issued = 0
           /\ failed = <<>>
           /\ loaded = 0

PagedInit ==
    /\ total \in 0..MaxTotal
    /\ \E sp \in PagedAddresses : Opened(sp)

LoaderInit ==
    /\ total \in 0..MaxTotal
    /\ \E sp \in InfiniteAddresses : Opened(sp)

\* ------------------------------------------------------------- navigation
\* router.push(...): the address becomes sp and the page renders again.
RouterPush(sp) ==
    /\ pushes < MaxPushes
    /\ searchParams' = sp
    /\ pushes' = pushes + 1

\* navigateToPage without the upper half of its guard.
navigateToPage_noUpperGuard(p) ==
    IF p < 1
    THEN /\ ignored' = TRUE
         /\ UNCHANGED <<searchParams, pushes>>
    ELSE /\ RouterPush(createQueryString(searchParams, "page", toString(p)))
         /\ ignored' = FALSE

\* navigateToPage refusing the first page as well.
navigateToPage_firstPageRefused(p) ==
    IF p <= 1 \/ p > totalPages
    THEN /\ ignored' = TRUE
         /\ UNCHANGED <<searchParams, pushes>>
    ELSE /\ RouterPush(createQueryString(searchParams, "page", toString(p)))
         /\ ignored' = FALSE

navigateToPage(p) ==
    IF p < 1 \/ p > totalPages
    THEN /\ ignored' = TRUE
         /\ UNCHANGED <<searchParams, pushes>>
    ELSE /\ RouterPush(createQueryString(searchParams, "page", toString(p)))
         /\ ignored' = FALSE

\* disabled={currentPage === 1} of the Previous button
PreviousDisabled == currentPage = 1

\* The Next button disabled only beyond the last page.
NextDisabled_beyondLastOnly == currentPage > totalPages

\* disabled={currentPage >= totalPages} of the Next button
NextDisabled == currentPage >= totalPages

\* The Previous button; a disabled button takes no click.
ClickPrevious ==
    /\ usePagination
    /\ ~PreviousDisabled
    /\ navigateToPage(currentPage - 1)
    /\ UNCHANGED <<total, loaderVars>>

\* The Next button; a disabled button takes no click.
ClickNext ==
    /\ usePagination
    /\ ~NextDisabled
    /\ navigateToPage(currentPage + 1)
    /\ UNCHANGED <<total, loaderVars>>

\* A page-number button; an ellipsis marker (page < 0) is a span without handler.
ClickPage ==
    /\ usePagination
    /\ \E idx \in DOMAIN pageNumbers :
          /\ ~(pageNumbers[idx] < 0)
          /\ navigateToPage(pageNumbers[idx])
    /\ UNCHANGED <<total, loaderVars>>

\* togglePaginationStyle's parameters when the toggle also starts again at the
\* first page.
ToggledParams_resetsPage(sp, size) ==
    LET style == IF PaginationExample(sp, size).usePagination THEN "pagination" ELSE "infinite"
    IN  IF style = "pagination"
        THEN ParamsSet(ParamsDelete(sp, "page"), "style", "infinite")
        ELSE ParamsDelete(ParamsDelete(sp, "page"), "style")

\* togglePaginationStyle's parameters when the toggle also writes the limit,
\* as createQueryString does.
ToggledParams_writesLimit(sp, size) ==
    LET style == IF PaginationExample(sp, size).usePagination THEN "pagination" ELSE "infinite"
        params == ParamsSet(sp, "limit", toString(PaginationExample(sp, size).currentLimit))
    IN  IF style = "pagination"
        THEN ParamsSet(params, "style", "infinite")
        ELSE ParamsDelete(params, "style")

\* The parameters togglePaginationStyle pushes when the address holds sp: the
\* currentStyle prop is the one the page rendered for sp.
ToggledParams(sp, size) ==
    LET style == IF PaginationExample(sp, size).usePagination THEN "pagination" ELSE "infinite"
    IN  IF style = "pagination"
        THEN ParamsSet(sp, "style", "infinite")
        ELSE ParamsDelete(sp, "style")

\* Either button of PaginationToggle. The page renders BlogPost in another place
\* of the tree for the other style, so a new BlogPost instance mounts.
togglePaginationStyle ==
    LET params == ToggledParams(searchParams, total)
    IN  /\ RouterPush(params)
        /\ Mount(params, total)
        /\ ignored' = FALSE
        /\ UNCHANGED total

\* ------------------------------------------------------------- infinite scroll
\* loadMorePosts with the request offset computed as nextPage * limit.
loadMorePosts_skipNotReduced ==
    IF captured.isLoading \/ captured.postsLength >= captured.totalItems
    THEN UNCHANGED <<posts, isLoading, page, inflight, issued>>
    ELSE LET nextPage == captured.page + 1
             skip == nextPage * captured.limit
         IN  /\ issued < MaxFetches
             /\ Len(inflight) < MaxInFlight
             /\ isLoading' = TRUE
             /\ inflight' = Append(inflight, [limit |-> captured.limit, skip |-> skip,
                                              nextPage |-> nextPage, n |-> issued + 1])
             /\ issued' = issued + 1
             /\ UNCHANGED <<posts, page>>

\* loadMorePosts as the observer holds it: guard and request use the captured values.
loadMorePosts ==
    IF captured.isLoading \/ captured.postsLength >= captured.totalItems
    THEN UNCHANGED <<posts, isLoading, page, inflight, issued>>
    ELSE LET nextPage == captured.page + 1
             skip == nextPage * captured.limit - captured.limit
         IN  /\ issued < MaxFetches
             /\ Len(inflight) < MaxInFlight
             /\ isLoading' = TRUE
             /\ inflight' = Append(inflight, [limit |-> captured.limit, skip |-> skip,
                                              nextPage |-> nextPage, n |-> issued + 1])
             /\ issued' = issued + 1
             /\ UNCHANGED <<posts, page>>

\* The IntersectionObserver callback with entries[0].isIntersecting.
SentinelVisible ==
    /\ props.infiniteScroll
    /\ loadMorePosts
    /\ failed' = <<>>
    /\ UNCHANGED <<total, addressVars, ignored, captured, loaded>>

\* BlogPost renders with its current state and the effect replaces the observer:
\* from now on the callback calls the loadMorePosts of this render.
Rerender ==
    /\ props.infiniteScroll
    /\ captured # Closure(searchParams, total, isLoading, page, posts)
    /\ captured' = Closure(searchParams, total, isLoading, page, posts)
    /\ UNCHANGED <<total, addressVars, ignored, posts, isLoading, page, inflight, issued, failed,
                   loaded>>

\* The response of the idx-th fetch in flight arrives: the try block completes,
\* then finally.
FetchResolve ==
    \E idx \in DOMAIN inflight :
        LET f == inflight[idx]
            newData == [posts |-> ServerPosts(total, f.limit, f.skip)]
        IN  /\ posts' = posts \o newData.posts
            /\ page' = f.nextPage
            /\ isLoading' = FALSE
            /\ inflight' = RemoveAt(inflight, idx)
            /\ loaded' = loaded + 1
            /\ UNCHANGED <<total, addressVars, ignored, captured, issued, failed>>

\* FetchReject without the finally block: the failure leaves the Loading flag set.
FetchReject_keepsLoading ==
    \E idx \in DOMAIN inflight :
        /\ inflight' = RemoveAt(inflight, idx)
        /\ failed' = <<inflight[idx].skip>>
        /\ UNCHANGED <<total, addressVars, ignored, captured, issued, posts, page, isLoading,
                       loaded>>

\* The idx-th fetch in flight fails: catch, then finally.
FetchReject ==
    \E idx \in DOMAIN inflight :
        /\ isLoading' = FALSE
        /\ inflight' = RemoveAt(inflight, idx)
        /\ failed' = <<inflight[idx].skip>>
        /\ UNCHANGED <<total, addressVars, ignored, captured, issued, posts, page, loaded>>

\* The numbered-page view: the Pagination controls and the style toggle.
PagedNext ==
    \/ ClickPrevious
    \/ ClickNext
    \/ ClickPage
    \/ togglePaginationStyle

PagedSpec == PagedInit /\ [][PagedNext]_vars

\* One infinite-scroll loader instance, from mount on.
LoaderNext ==
    \/ SentinelVisible
    \/ Rerender
    \/ FetchResolve
    \/ FetchReject

LoaderSpec == LoaderInit /\ [][LoaderNext]_vars

\* The loader when every fetch in flight gets its response or its failure.
LoaderFairSpec ==
    LoaderInit /\ [][LoaderNext]_vars /\ WF_vars(FetchResolve \/ FetchReject)

\* ------------------------------------------------------------- the page window's properties
\* Pagination is rendered with a current page inside [1, totalPages].
InRange == usePagination /\ totalPages >= 1 /\ 1 <= currentPage /\ currentPage <= totalPages

\* The elements of the finite set S of integers in ascending order.
RECURSIVE Ascending(_)
Ascending(S) ==
    IF S = {} THEN <<>>
    ELSE LET least == CHOOSE x \in S : \A y \in S : x <= y
         IN  <<least>> \o Ascending(S \ {least})

\* The page window as the Page-Window Calculator's five steps describe it.
Window(cp, tp) ==
    <<1>>
    \o (IF cp > 4 THEN <<LeadingEllipsis>> ELSE <<>>)
    \o Ascending({q \in 1..tp : Max(2, cp - 2) <= q /\ q <= Min(tp - 1, cp + 2)})
    \o (IF cp < tp - 3 THEN <<TrailingEllipsis>> ELSE <<>>)
    \o (IF tp > 1 THEN <<tp>> ELSE <<>>)

\* C4: for 1 <= currentPage <= totalPages the rendered page window is exactly
\* 1, the leading marker iff currentPage > 4, the pages from max(2, currentPage-2)
\* to min(totalPages-1, currentPage+2) in ascending order, the trailing marker iff
\* currentPage < totalPages-3, and totalPages iff totalPages > 1; (10,5) gives
\* [1, e1, 3..7, e2, 10], (3,2) gives [1,2,3] and totalPages = 1 gives [1].
C4_WindowAsSpecified ==
    /\ InRange => pageNumbers = Window(currentPage, totalPages)
    /\ (InRange /\ totalPages = 10 /\ currentPage = 5)
            => pageNumbers = <<1, LeadingEllipsis, 3, 4, 5, 6, 7, TrailingEllipsis, 10>>
    /\ (InRange /\ totalPages = 3 /\ currentPage = 2) => pageNumbers = <<1, 2, 3>>
    /\ (InRange /\ totalPages = 1) => pageNumbers = <<1>>

\* C4 witness: after a navigation, page 5 of 10 is rendered with both markers.
C4_PageFiveOfTen ==
    /\ InRange /\ pushes >= 1
    /\ totalPages = 10 /\ currentPage = 5
    /\ pageNumbers = <<1, LeadingEllipsis, 3, 4, 5, 6, 7, TrailingEllipsis, 10>>

\* C5: for 1 <= currentPage <= totalPages the page window starts with page 1 and,
\* if totalPages > 1, ends with page totalPages.
C5_FirstAndLastPage ==
    InRange => /\ pageNumbers[1] = 1
               /\ totalPages > 1 => pageNumbers[Len(pageNumbers)] = totalPages

\* C5 witness: the last page of several is rendered, with no trailing marker
\* before it.
C5_OnLastPage ==
    /\ InRange /\ totalPages >= 5 /\ currentPage = totalPages
    /\ pageNumbers[1] = 1
    /\ pageNumbers[Len(pageNumbers)] = totalPages

Tokens(w) == {w[i] : i \in DOMAIN w}

\* C6: for 1 <= currentPage <= totalPages, currentPage <= 4 gives no leading
\* marker and currentPage >= totalPages - 3 gives no trailing marker.
C6_NoEllipsisNearEnds ==
    InRange => /\ currentPage <= 4 => LeadingEllipsis \notin Tokens(pageNumbers)
               /\ currentPage >= totalPages - 3 => TrailingEllipsis \notin Tokens(pageNumbers)

\* C6 witness: page 4 of 7, the last page without a leading marker and the first
\* without a trailing one.
C6_PageFourOfSeven ==
    /\ InRange /\ totalPages = 7 /\ currentPage = 4
    /\ pageNumbers = <<1, 2, 3, 4, 5, 6, 7>>

\* Some page number stands at two places of the window w.
RepeatsAPage(w) == \E i, j \in DOMAIN w : i < j /\ w[i] = w[j] /\ w[i] >= 1

\* C7, as claimed: for some totalPages >= 1 (any up to the largest the view is
\* rendered with) and currentPage in [1, totalPages] the page window holds the
\* same page number twice.
C7_SomeWindowRepeatsAPage ==
    \E tp \in 1..Max(totalPages, MaxTotal + 1) :
        \E cp \in 1..tp : RepeatsAPage(getPageNumbers(cp, tp))

\* C7, amended: for 1 <= currentPage <= totalPages the page window holds no page
\* number twice: the range step stays strictly between page 1 and page totalPages.
C7_NoPageTwice == InRange => ~RepeatsAPage(pageNumbers)

\* C7 witness: page 2 of 3, where the range step reaches down to 2 and up to 2
\* beside the fixed pages 1 and 3.
C7_PageTwoOfThree ==
    /\ InRange /\ totalPages = 3 /\ currentPage = 2
    /\ pageNumbers = <<1, 2, 3>>

\* ------------------------------------------------------------- navigation's properties
\* The targets navigateToPage is called with.
NavTargets == (0 - 1)..(MaxTotal + 2)

\* C8: navigateToPage(p) with p < 1 or p > totalPages pushes nothing and leaves
\* the address as it is; with 1 <= p <= totalPages it pushes an address whose page
\* is p. This holds whatever the current address page is.
C8_NavigationGuarded ==
    [][\A p \in NavTargets :
          (usePagination /\ navigateToPage(p))
              => IF p < 1 \/ p > totalPages
                 THEN UNCHANGED <<searchParams, pushes>>
                 ELSE /\ pushes' = pushes + 1
                      /\ PaginationExample(searchParams', total).currentPage = p]_vars

\* C8 witness: a call was ignored while the address page itself is beyond
\* totalPages, and nothing was pushed.
C8_IgnoredOutOfRange ==
    /\ usePagination /\ ignored /\ pushes = 0
    /\ totalPages >= 1 /\ currentPage > totalPages

\* ------------------------------------------------------------- the loader's properties
\* The terminal condition of the Infinite List Loader.
Exhausted == Len(posts) >= props.totalItems

\* C1: at most one incremental fetch of a loader instance is in flight at any time.
C1_SingleFlight == Len(inflight) <= 1

\* C2: in infinite mode the number of accumulated items never exceeds total.
C2_AccumulatedAtMostTotal == props.infiniteScroll => Len(posts) <= total

\* C3: an observer callback that arrives while the loader is Loading or Exhausted
\* issues no fetch and leaves the accumulated list, the page counter and the
\* Loading flag as they are (a fetch starts only from Idle and not Exhausted), and
\* Exhausted, once reached, is never left.
C3_TriggerGuarded ==
    [][/\ (SentinelVisible /\ (isLoading \/ Exhausted))
            => UNCHANGED <<posts, page, isLoading, inflight, issued>>
       /\ Exhausted => Exhausted']_vars

\* C9, as claimed: the Nth incremental fetch a loader instance issues requests
\* skip = N * limit. Stated for the loader with one fetch in flight, the Loading
\* flag set and a callback that holds the current page counter, where overlapping
\* fetches play no part.
C9_NthFetchSkipsNLimits ==
    (Len(inflight) = 1 /\ isLoading /\ captured.page = page)
        => inflight[1].skip = inflight[1].n * inflight[1].limit

\* C9, amended: every incremental fetch requests skip = (nextPage - 1) * limit,
\* nextPage being the page counter it sets on success; that is the skip getBlogPosts
\* computes for page nextPage.
C9_SkipOfNextPage ==
    \A idx \in DOMAIN inflight :
        LET f == inflight[idx]
        IN  /\ f.skip = (f.nextPage - 1) * f.limit
            /\ f.skip = getBlogPosts(total, f.limit, f.nextPage).skip

\* C9 witness: the fetch for nextPage = 3 with limit 5 is in flight and requests skip 10.
C9_ThirdPageInFlight ==
    \E idx \in DOMAIN inflight :
        /\ inflight[idx].nextPage = 3
        /\ inflight[idx].limit = 5
        /\ inflight[idx].skip = 10

\* C10: a failed incremental fetch leaves the accumulated list and the page counter
\* as they were and clears the Loading flag, and the next observer callback issues
\* a fetch with the skip of the failed one.
C10_FailureThenRetry ==
    [][/\ FetchReject => (posts' = posts /\ page' = page /\ ~isLoading')
       /\ (SentinelVisible /\ failed # <<>>)
            => /\ issued' = issued + 1
               /\ inflight'[Len(inflight')].skip = failed[1]]_vars

\* C11: whenever the loader is Loading it is Idle again later, whether the fetch
\* completes or fails, given that every fetch in flight resolves or rejects.
C11_LoadingEnds == isLoading ~> ~isLoading

\* C11 witness: the loader is Idle again after a fetch that failed.
C11_IdleAfterFailure == ~isLoading /\ failed # <<>> /\ inflight = <<>> /\ issued >= 1

\* C12: in infinite mode opened on the first page, after k completed incremental
\* loads the accumulated length is min(total, (k+1) * limit) and the page counter
\* is k+1; after ceil(total/limit) - 1 of them the list holds all the items, each
\* once and in order, and the loader is Exhausted.
C12_LengthAfterLoads ==
    (props.infiniteScroll /\ currentPage = 1)
        => /\ Len(posts) = Min(total, (loaded + 1) * currentLimit)
           /\ page = loaded + 1
           /\ loaded >= Ceil(total, currentLimit) - 1
                => (posts = [i \in 1..total |-> i - 1] /\ Exhausted)

\* ------------------------------------------------------------- the style toggle's properties
\* The parameters other than style are the same in sp and sq: present in both
\* with one value, or absent in both.
SameButStyle(sp, sq) ==
    /\ (DOMAIN sp) \ {"style"} = (DOMAIN sq) \ {"style"}
    /\ \A k \in (DOMAIN sp) \ {"style"} : sp[k] = sq[k]

\* C13: from the current address, two style toggles lead to an address with the
\* same display mode, the same page and the same limit.
C13_ToggleTwice ==
    LET twice == ToggledParams(ToggledParams(searchParams, total), total)
        after == PaginationExample(twice, total)
    IN  /\ after.usePagination = usePagination
        /\ after.currentPage = currentPage
        /\ after.currentLimit = currentLimit
        /\ SameButStyle(searchParams, twice)

\* C13 witness: the numbered-page view on page 3, reached by two toggles (a
\* navigation would have written the limit).
C13_BackAfterTwoToggles ==
    /\ pushes = 2 /\ usePagination
    /\ ~Has(searchParams, "limit")
    /\ currentPage = 3

\* C14: one style toggle sets style = infinite from the numbered-page view and
\* removes style from the infinite view; every other parameter keeps its value
\* and an absent one stays absent.
C14_ToggleChangesStyleOnly ==
    [][togglePaginationStyle
          => /\ SameButStyle(searchParams, searchParams')
             /\ usePagination
                  => (Has(searchParams', "style") /\ searchParams'["style"] = "infinite")
             /\ ~usePagination
                  => (~Has(searchParams', "style")
                      /\ PaginationExample(searchParams', total).usePagination)]_vars

\* C14 witness: the infinite view reached by one toggle from an address without
\* page and limit, which are still absent.
C14_ToggledWithAbsentParameters ==
    /\ pushes = 1 /\ ~usePagination
    /\ ~Has(searchParams, "page") /\ ~Has(searchParams, "limit")

\* ------------------------------------------------------------- the controls' properties
\* C15: a navigation that is pushed changes only the page parameter: the address
\* then holds the limit in effect before it (the default when the parameter was
\* absent), and the style parameter is as before.
C15_NavigationKeepsLimitAndStyle ==
    [][\A p \in NavTargets :
          (usePagination /\ navigateToPage(p) /\ pushes' # pushes)
              => /\ Has(searchParams', "limit")
                 /\ parseInt(searchParams'["limit"]) = currentLimit
                 /\ PaginationExample(searchParams', total).currentLimit = currentLimit
                 /\ Has(searchParams', "style") = Has(searchParams, "style")
                 /\ Has(searchParams, "style") => searchParams'["style"] = searchParams["style"]
                 /\ DOMAIN searchParams' = (DOMAIN searchParams) \cup {"page", "limit"}]_vars

\* C15 witness: page 2 reached by a navigation from an address without limit;
\* the address now holds the default limit, and its style is kept.
C15_DefaultLimitWritten ==
    /\ pushes = 1 /\ ~ignored /\ currentPage = 2
    /\ Has(searchParams, "limit") /\ searchParams["limit"] = toString(DefaultLimit)
    /\ Has(searchParams, "style") /\ searchParams["style"] = "list"

\* The page the address sq is rendered with.
PageOf(sq) == PaginationExample(sq, total).currentPage

\* C16, as claimed: Previous is disabled exactly when currentPage = 1 and Next
\* exactly when currentPage = totalPages, and a click on an enabled one navigates
\* to currentPage - 1, respectively currentPage + 1.
C16_DisabledAtTheEnds ==
    [][/\ usePagination => /\ PreviousDisabled <=> currentPage = 1
                           /\ NextDisabled <=> currentPage = totalPages
       /\ ClickPrevious => PageOf(searchParams') = currentPage - 1
       /\ ClickNext => PageOf(searchParams') = currentPage + 1]_vars

\* What the controls ensure in one state.
ControlsDisabled ==
    usePagination => /\ PreviousDisabled <=> currentPage = 1
                     /\ NextDisabled <=> currentPage >= totalPages
                     /\ InRange => (NextDisabled <=> currentPage = totalPages)

\* C16, amended: Previous is disabled exactly when currentPage = 1 and Next
\* exactly when currentPage >= totalPages, which for a current page inside
\* [1, totalPages] is currentPage = totalPages; a click on an enabled one
\* navigates to currentPage - 1, respectively currentPage + 1, if that page is
\* inside [1, totalPages] (always so from a current page inside it) and is
\* ignored otherwise.
C16_DisabledAtOrBeyondTheEnds ==
    [][/\ ControlsDisabled
       /\ ClickPrevious
            => IF 1 <= currentPage - 1 /\ currentPage - 1 <= totalPages
               THEN PageOf(searchParams') = currentPage - 1 /\ pushes' = pushes + 1
               ELSE ~InRange /\ UNCHANGED <<searchParams, pushes>>
       /\ ClickNext
            => IF 1 <= currentPage + 1 /\ currentPage + 1 <= totalPages
               THEN PageOf(searchParams') = currentPage + 1 /\ pushes' = pushes + 1
               ELSE ~InRange /\ UNCHANGED <<searchParams, pushes>>]_vars

\* C16 witness: the last of several pages, reached by a navigation: Next is
\* disabled and Previous is not.
C16_ArrivedOnLastPage ==
    /\ InRange /\ totalPages >= 2 /\ currentPage = totalPages
    /\ pushes >= 1 /\ ~ignored
    /\ NextDisabled /\ ~PreviousDisabled

\* C17: in paged mode the items shown are exactly those of the current
\* address, fetched with skip = (currentPage - 1) * limit; nothing of an
\* earlier page is carried over and no incremental fetch is issued.
C17_PageLoadIndependent ==
    usePagination =>
        /\ posts = getBlogPosts(total, currentLimit, currentPage).posts
        /\ inflight = <<>>
        /\ issued = 0

\* C18: in infinite mode, opened with any page >= 1, the accumulated list holds
\* no item twice and lists the items in ascending collection offset.
C18_AscendingWithoutRepeats ==
    (props.infiniteScroll /\ currentPage >= 1)
        => \A i, j \in DOMAIN posts : i < j => posts[i] < posts[j]

\* C19: in infinite mode, opened with any page >= 1 and a limit > 0, the loader
\* reaches Exhausted when every fetch succeeds; on the way there, every
\* successful load that finds the list not Exhausted adds at least one item
\* to it (a load that adds none asked for a skip at or beyond the end of the
\* collection, and no later load asks for a smaller one).
C19_EveryLoadNearsExhausted ==
    [][(props.infiniteScroll /\ currentPage >= 1 /\ LoaderLimit(searchParams, total) > 0
            /\ ~Exhausted /\ FetchResolve)
        => Len(posts') > Len(posts)]_vars

\* C20: for 1 <= currentPage <= totalPages the page numbers of the window are
\* strictly increasing, currentPage is one of them, two page numbers next to
\* each other are consecutive, and every ellipsis marker stands between two
\* page numbers that differ by at least 2.
C20_EllipsisWhereHidden ==
    InRange =>
        LET w == pageNumbers
        IN  /\ \A i, j \in DOMAIN w : (i < j /\ w[i] >= 1 /\ w[j] >= 1) => w[i] < w[j]
            /\ \E i \in DOMAIN w : w[i] = currentPage
            /\ \A i \in 1..(Len(w) - 1) : (w[i] >= 1 /\ w[i + 1] >= 1) => w[i + 1] = w[i] + 1
            /\ \A i \in DOMAIN w :
                    w[i] < 1 => /\ 1 < i /\ i < Len(w)
                                /\ w[i - 1] >= 1 /\ w[i + 1] >= 1
                                /\ w[i + 1] - w[i - 1] >= 2

\* C20 witness: page 6 of 12, reached by a navigation: pages 2..3 and 9..11 are
\* hidden behind the two markers.
C20_PageSixOfTwelve ==
    /\ InRange /\ pushes >= 1 /\ ~ignored
    /\ totalPages = 12 /\ currentPage = 6
    /\ pageNumbers = <<1, LeadingEllipsis, 4, 5, 6, 7, 8, TrailingEllipsis, 12>>

\* ------------------------------------------------------------- the address page's properties
\* A click on Previous, on Next or on a page number.
PagedClick == ClickPrevious \/ ClickNext \/ ClickPage

\* C21: in paged mode, from an address page in [1, totalPages], a click on
\* Previous, Next or a page number leaves totalPages as it is and the address
\* page in [1, totalPages]; and every page of [1, totalPages] can be reached:
\* while pushes are followed, some click leads to the page before the address
\* page unless that is page 1, and some click to the page after it unless it is
\* page totalPages.
C21_StaysInRangeAndReachesAll ==
    /\ [][(InRange /\ PagedClick) => (InRange' /\ totalPages' = totalPages)]_vars
    /\ [](/\ (InRange /\ pushes < MaxPushes /\ currentPage > 1)
                => ENABLED (PagedClick /\ PageOf(searchParams') = currentPage - 1)
          /\ (InRange /\ pushes < MaxPushes /\ currentPage < totalPages)
                => ENABLED (PagedClick /\ PageOf(searchParams') = currentPage + 1))

\* C21 witness: two clicks were followed and the address page is an inner page
\* of at least five.
C21_TwoClicksToInnerPage ==
    /\ InRange /\ pushes = 2 /\ ~ignored
    /\ totalPages >= 5 /\ currentPage = 3

====
